---- MODULE Spec2Model ----
(***************************************************************************)
(* Model of backend/index.js: an express server over three PostgreSQL      *)
(* tables (logindata, post, carouselimages) with bcrypt password hashes    *)
(* and JWT bearer tokens.                                                  *)
(*                                                                         *)
(* Conventions.  Time is counted in minutes.  A JSON body field that is    *)
(* absent is Undefined; the pg driver sends an undefined parameter as SQL  *)
(* NULL.  The three-valued flags of table post are the strings "TRUE",     *)
(* "FALSE" and NULL.  A password is a sequence of runs [ch, n] of n equal     *)
(* bytes ch, adjacent runs of different bytes.  An HTTP answer is a record *)
(* [status, error, rows, token].                                            *)
(*                                                                         *)
(* The store.  The source declares no schema.  The serial primary keys     *)
(* are read off the INSERT statements; the unique constraint on            *)
(* logindata.email is the one the data model of the specification gives    *)
(* the table; the other columns accept NULL.  A statement fails only by    *)
(* that constraint (the other catch branches that answer 500 are not       *)
(* modelled).  The carousel routes touch no state of the other routes and  *)
(* are left out.                                                           *)
(***************************************************************************)
EXTENDS Integers, Sequences, FiniteSets, TLC

VARIABLES users, posts, now, resp, session, creds, reg

vars == <<users, posts, now, resp, session, creds, reg>>

----------------------------------------------------------------------------
(* Bounds of the model *)

MaxTasks == 2
MaxGateTasks == 1
MaxRemRows == 6
MaxTies == 3
MaxReq == 2
Tick == 15
MaxTime == 75

(* Program constants: the "1h" of jwt.sign, the interval and the LIMIT of   *)
(* the reminder query, and the number of password bytes bcrypt reads       *)

ExpiresIn == 60
ReminderInterval == 30
ReminderLimit == 5
BcryptMaxBytes == 72

----------------------------------------------------------------------------
(* Values *)

Undefined == "<undefined>"
NULL == "<null>"
jwtSecretKey == "SECRET"
ForgedKey == "not-the-secret"

\* JavaScript's !x for a string field of req.body
Falsy(x) == x \in {"", Undefined}

\* pg: an undefined query parameter is sent as NULL
ToParam(x) == IF x = Undefined THEN NULL ELSE x

Response(status, error, rows, token) ==
    [status |-> status, error |-> error, rows |-> rows, token |-> token]

NoResponse == Response(0, "", <<>>, <<>>)

Range(s) == {s[i] : i \in DOMAIN s}

----------------------------------------------------------------------------
(* jsonwebtoken *)

\* jwt.sign(payload, key, { expiresIn: "1h" }) at time t
JwtSign(userId, email, key, t) ==
    [userId |-> userId, email |-> email, iat |-> t, exp |-> t + ExpiresIn, key |-> key]

\* Mutant: the expiry is not looked at
JwtVerifyIgnoringExpiry(token, key, t) == token.key = key

\* jwt.verify(token, key) at time t: no error iff the signature is the key's
\* and the expiry has not been reached
JwtVerifyOk(token, key, t) == token.key = key /\ t < token.exp

\* The Authorization header after split(" "): <<>> when the header is absent
HeaderToken(authHeader) == IF Len(authHeader) >= 2 THEN <<authHeader[2]>> ELSE <<>>

validateToken(authHeader, t) ==
    LET token == HeaderToken(authHeader) IN
    IF token = <<>>
      THEN [ok |-> FALSE, userId |-> 0, userEmail |-> "",
            resp |-> Response(401, "Access denied: No token provided", <<>>, <<>>)]
    ELSE IF ~JwtVerifyOk(token[1], jwtSecretKey, t)
      THEN [ok |-> FALSE, userId |-> 0, userEmail |-> "",
            resp |-> Response(403, "Invalid or expired token", <<>>, <<>>)]
    ELSE [ok |-> TRUE, userId |-> token[1].userId, userEmail |-> token[1].email,
          resp |-> NoResponse]

----------------------------------------------------------------------------
(* bcryptjs *)

\* The first k bytes of a password
RECURSIVE TakeBytes(_, _)
TakeBytes(password, k) ==
    IF password = <<>> \/ k = 0 THEN <<>>
    ELSE IF Head(password).n <= k
      THEN <<Head(password)>> \o TakeBytes(Tail(password), k - Head(password).n)
    ELSE <<[ch |-> Head(password).ch, n |-> k]>>

\* bcrypt keys the cipher with the first 72 bytes of the password
BcryptKey(password) == TakeBytes(password, BcryptMaxBytes)

BcryptHash(password, salt) == [salt |-> salt, key |-> BcryptKey(password)]

BcryptCompare(password, hash) == BcryptHash(password, hash.salt) = hash

----------------------------------------------------------------------------
(* Table post *)

PostRow(id, userId, task, type, timeofentry, completestatus, remindertime, currentstatus) ==
    [id |-> id, user_id |-> userId, task |-> task, type |-> type,
     timeofentry |-> timeofentry, completestatus |-> completestatus,
     remindertime |-> remindertime, currentstatus |-> currentstatus]

\* Mutant: ORDER BY timeofentry ASC LIMIT k
RECURSIVE OrderByTimeAsc(_, _)
OrderByTimeAsc(S, k) ==
    IF S = {} \/ k = 0 THEN {<<>>}
    ELSE UNION { { <<r>> \o t : t \in OrderByTimeAsc(S \ {r}, k - 1) } :
                 r \in {x \in S : \A y \in S : x.timeofentry <= y.timeofentry} }

\* ORDER BY timeofentry DESC LIMIT k: every order of the rows that is
\* descending in timeofentry, cut to k rows (the order of ties is the
\* store's choice)
RECURSIVE OrderByTimeDesc(_, _)
OrderByTimeDesc(S, k) ==
    IF S = {} \/ k = 0 THEN {<<>>}
    ELSE UNION { { <<r>> \o t : t \in OrderByTimeDesc(S \ {r}, k - 1) } :
                 r \in {x \in S : \A y \in S : x.timeofentry >= y.timeofentry} }

OrderByTimeDescAll(S) == OrderByTimeDesc(S, Cardinality(S))

\* WHERE user_id = $1 AND completestatus = FALSE AND currentstatus = FALSE
SelectPending(p, userId) ==
    {r \in Range(p) : r.user_id = userId /\ r.completestatus = "FALSE" /\ r.currentstatus = "FALSE"}

\* Mutant: the completed view forgets the currentstatus condition
SelectCompletedAnyCurrent(p, userId) ==
    {r \in Range(p) : r.user_id = userId /\ r.completestatus = "TRUE"}

\* WHERE user_id = $1 AND completestatus = TRUE AND currentstatus = FALSE
SelectCompleted(p, userId) ==
    {r \in Range(p) : r.user_id = userId /\ r.completestatus = "TRUE" /\ r.currentstatus = "FALSE"}

\* WHERE user_id = $1 AND remindertime - CURRENT_TIMESTAMP < INTERVAL '30 minutes'
SelectReminders(p, userId, t) ==
    {r \in Range(p) : r.user_id = userId /\ r.remindertime - t < ReminderInterval}

\* Mutant: the WHERE clause forgets the owner
MatchesIdOnly(r, id, userId) == r.id = id

\* WHERE id = $3 AND user_id = $4
Matches(r, id, userId) == r.id = id /\ r.user_id = userId

\* Mutant: the UPDATE forgets the id and changes every row of the owner
UpdateStatusAllOwned(p, completestatus, currentstatus, id, userId) ==
    [i \in DOMAIN p |->
        IF p[i].user_id = userId /\ (\E k \in DOMAIN p : Matches(p[k], id, userId))
          THEN [p[i] EXCEPT !.completestatus = completestatus, !.currentstatus = currentstatus]
          ELSE p[i]]

\* UPDATE post SET completestatus = $1, currentstatus = $2 WHERE ...
UpdateStatus(p, completestatus, currentstatus, id, userId) ==
    [i \in DOMAIN p |->
        IF Matches(p[i], id, userId)
          THEN [p[i] EXCEPT !.completestatus = completestatus, !.currentstatus = currentstatus]
          ELSE p[i]]

\* UPDATE post SET task = $1, type = $2 WHERE ...
UpdateContent(p, task, type, id, userId) ==
    [i \in DOMAIN p |->
        IF Matches(p[i], id, userId)
          THEN [p[i] EXCEPT !.task = task, !.type = type]
          ELSE p[i]]

\* RETURNING * of an UPDATE: the rows it matched, as they are afterwards
Returning(after, id, userId) == SelectSeq(after, LAMBDA r : Matches(r, id, userId))

NotFound == Response(404, "Task not found or unauthorized", <<>>, <<>>)

\* The handler bodies of the three PATCH routes and of PUT /tasks/:id, after
\* validateToken: the table and the answer they produce
PatchTasksResult(p, userId, id, completestatus, currentstatus) ==
    LET after == UpdateStatus(p, ToParam(completestatus), ToParam(currentstatus), id, userId)
        rows == Returning(after, id, userId)
    IN IF Len(rows) = 0 THEN [posts |-> after, resp |-> NotFound]
       ELSE [posts |-> after, resp |-> Response(200, "", <<rows[1]>>, <<>>)]

PatchDtasksResult(p, userId, id, completestatus, currentstatus) ==
    LET after == UpdateStatus(p, ToParam(completestatus), ToParam(currentstatus), id, userId)
        rows == Returning(after, id, userId)
    IN IF Len(rows) = 0 THEN [posts |-> after, resp |-> NotFound]
       ELSE [posts |-> after, resp |-> Response(200, "", <<rows[1]>>, <<>>)]

PatchTaskschangeResult(p, userId, id, completestatus, currentstatus) ==
    LET after == UpdateStatus(p, ToParam(completestatus), ToParam(currentstatus), id, userId)
        rows == Returning(after, id, userId)
    IN IF Len(rows) = 0 THEN [posts |-> after, resp |-> NotFound]
       ELSE [posts |-> after, resp |-> Response(200, "", <<rows[1]>>, <<>>)]

PutTasksResult(p, userId, id, editedtask, editedtype) ==
    IF Falsy(editedtask)
      THEN [posts |-> p, resp |-> Response(400, "Task content is required", <<>>, <<>>)]
    ELSE LET after == UpdateContent(p, ToParam(editedtask), ToParam(editedtype), id, userId)
             rows == Returning(after, id, userId)
         IN IF Len(rows) = 0 THEN [posts |-> after, resp |-> NotFound]
            ELSE [posts |-> after, resp |-> Response(200, "", <<rows[1]>>, <<>>)]

\* POST /tasks after validateToken; remindertime is <<>> when absent
PostTasksResult(p, userId, task, type, timeofentry, completestatus, remindertime, currentstatus) ==
    IF Falsy(task) \/ Falsy(type) \/ remindertime = <<>>
      THEN [posts |-> p,
            resp |-> Response(400, "Task, type, and remindertime are required", <<>>, <<>>)]
    ELSE LET row == PostRow(Len(p) + 1, userId, task, type, timeofentry,
                            ToParam(completestatus), remindertime[1], ToParam(currentstatus))
         IN [posts |-> Append(p, row), resp |-> Response(201, "", <<row>>, <<>>)]

----------------------------------------------------------------------------
(* Table logindata *)

UserRow(id, email, password, firstname, lastname) ==
    [id |-> id, email |-> email, password |-> password,
     firstname |-> firstname, lastname |-> lastname]

RegBody(email, password, firstname, lastname) ==
    [email |-> email, password |-> password, firstname |-> firstname, lastname |-> lastname]

\* Mutant: the lookup compares the wrong column
SelectByFirstname(u, email) == SelectSeq(u, LAMBDA r : r.firstname = email)

\* SELECT * FROM logindata WHERE email = $1
SelectByEmail(u, email) == SelectSeq(u, LAMBDA r : r.email = email)

\* SELECT firstname, email FROM logindata WHERE id = $1
SelectById(u, id) == SelectSeq(u, LAMBDA r : r.id = id)

\* INSERT INTO logindata (...) VALUES (...) RETURNING id, email, firstname, lastname
InsertUser(u, id, body, hashedPassword) ==
    Append(u, UserRow(id, body.email, hashedPassword, body.firstname, body.lastname))

\* A table whose email column accepts any value
NoUniqueConstraint(u, email) == FALSE

\* The unique constraint on logindata.email: an INSERT of an email the
\* table holds fails
UniqueViolation(u, email) == \E i \in DOMAIN u : u[i].email = email

Registered(row) ==
    [id |-> row.id, email |-> row.email, firstname |-> row.firstname, lastname |-> row.lastname]

\* The presence check of POST /register
RegInvalid(body) ==
    Falsy(body.email) \/ body.password = <<>> \/ Falsy(body.firstname) \/ Falsy(body.lastname)

RegBadRequest == Response(400, "Email, password, firstname, and lastname are required", <<>>, <<>>)

RegConflict == Response(409, "Email already registered", <<>>, <<>>)

RegFailed == Response(500, "Failed to register user", <<>>, <<>>)

\* POST /register run from its first line to its answer with no other
\* request in between
RegisterResult(u, body, salt) ==
    IF RegInvalid(body) THEN [users |-> u, resp |-> RegBadRequest]
    ELSE IF Len(SelectByEmail(u, body.email)) > 0 THEN [users |-> u, resp |-> RegConflict]
    ELSE IF UniqueViolation(u, body.email) THEN [users |-> u, resp |-> RegFailed]
    ELSE LET after == InsertUser(u, Len(u) + 1, body, BcryptHash(body.password, salt))
         IN [users |-> after,
             resp |-> Response(201, "", <<Registered(after[Len(after)])>>, <<>>)]

\* POST /login at time t
LoginResult(u, email, password, t) ==
    IF Falsy(email) \/ password = <<>>
      THEN Response(400, "Email and password are required", <<>>, <<>>)
    ELSE LET result == SelectByEmail(u, email) IN
         IF Len(result) = 0 THEN Response(404, "User not found", <<>>, <<>>)
         ELSE LET user == result[1] IN
              IF ~BcryptCompare(password, user.password)
                THEN Response(401, "Incorrect password", <<>>, <<>>)
              ELSE Response(200, "", <<[firstname |-> user.firstname]>>,
                            <<JwtSign(user.id, user.email, jwtSecretKey, t)>>)

\* GET /user after validateToken
GetUserResult(u, userId) ==
    LET result == SelectById(u, userId) IN
    IF Len(result) = 0 THEN Response(404, "User not found", <<>>, <<>>)
    ELSE Response(200, "", <<[firstname |-> result[1].firstname, email |-> result[1].email]>>, <<>>)

----------------------------------------------------------------------------
(* Inputs *)

Emails == {"alice@example.com", "bob@example.com"}

Salts == {"salt1", "salt2"}

Run(ch, n) == [ch |-> ch, n |-> n]

\* A password of 8 bytes, and two of 73 bytes that differ in the last byte
ShortPw == <<Run("s", 8)>>
LongPwA == <<Run("x", BcryptMaxBytes), Run("a", 1)>>
LongPwB == <<Run("x", BcryptMaxBytes), Run("b", 1)>>

Passwords == {ShortPw, LongPwA, LongPwB}

AliceBody == RegBody("alice@example.com", LongPwA, "Alice", "A")
BobBody == RegBody("bob@example.com", ShortPw, "Bob", "B")

RegBodies ==
    {AliceBody, BobBody,
     RegBody("alice@example.com", ShortPw, "Alicia", "Z"),
     RegBody("", ShortPw, "Alice", "A"),
     RegBody("alice@example.com", <<>>, "Alice", "A"),
     RegBody("alice@example.com", ShortPw, Undefined, "A"),
     RegBody("alice@example.com", ShortPw, "Alice", "")}

Flags == {"TRUE", "FALSE", Undefined}

\* The two accounts of the task specifications: Alice and Bob registered, in
\* this order, on an empty table
TwoUsers ==
    RegisterResult(RegisterResult(<<>>, AliceBody, "salt1").users, BobBody, "salt1").users

\* Authorization headers, split at the blank: none, a scheme with no token,
\* and for each account a token signed at time t with the server's key or
\* with another key
NoHeaders == {<<>>, <<"Bearer">>}

Bearer(key, t) == {<<"Bearer", JwtSign(u.id, u.email, key, t)>> : u \in Range(TwoUsers)}

\* Tokens issued at time Tick, valid until Tick + ExpiresIn
TaskHeaders == {<<>>} \cup Bearer(jwtSecretKey, Tick)

\* Tokens issued at time 0
GateHeaders == NoHeaders \cup Bearer(jwtSecretKey, 0) \cup Bearer(ForgedKey, 0)

----------------------------------------------------------------------------
(* Protected routes: validateToken, then the handler.  A route maps the    *)
(* table, the Authorization header, the time and the request to the table  *)
(* and the answer; a list route maps them to the answers it can give.      *)

Rejected(p, v) == [posts |-> p, resp |-> v.resp]

GetUserRoute(u, hdr, t) ==
    LET v == validateToken(hdr, t) IN
    IF ~v.ok THEN v.resp ELSE GetUserResult(u, v.userId)

GetTasksRoute(p, hdr, t) ==
    LET v == validateToken(hdr, t) IN
    IF ~v.ok THEN {v.resp}
    ELSE {Response(200, "", rows, <<>>) :
             rows \in OrderByTimeDescAll(SelectPending(p, v.userId))}

GetTaskschangeRoute(p, hdr, t) ==
    LET v == validateToken(hdr, t) IN
    IF ~v.ok THEN {v.resp}
    ELSE {Response(200, "", rows, <<>>) :
             rows \in OrderByTimeDescAll(SelectCompleted(p, v.userId))}

GetRemindertasksRoute(p, hdr, t) ==
    LET v == validateToken(hdr, t) IN
    IF ~v.ok THEN {v.resp}
    ELSE {Response(200, "", rows, <<>>) :
             rows \in OrderByTimeDesc(SelectReminders(p, v.userId, t), ReminderLimit)}

PostTasksRoute(p, hdr, t, task, type, timeofentry, completestatus, remindertime, currentstatus) ==
    LET v == validateToken(hdr, t) IN
    IF ~v.ok THEN Rejected(p, v)
    ELSE PostTasksResult(p, v.userId, task, type, timeofentry,
                         completestatus, remindertime, currentstatus)

PatchTasksRoute(p, hdr, t, id, completestatus, currentstatus) ==
    LET v == validateToken(hdr, t) IN
    IF ~v.ok THEN Rejected(p, v)
    ELSE PatchTasksResult(p, v.userId, id, completestatus, currentstatus)

PatchDtasksRoute(p, hdr, t, id, completestatus, currentstatus) ==
    LET v == validateToken(hdr, t) IN
    IF ~v.ok THEN Rejected(p, v)
    ELSE PatchDtasksResult(p, v.userId, id, completestatus, currentstatus)

PatchTaskschangeRoute(p, hdr, t, id, completestatus, currentstatus) ==
    LET v == validateToken(hdr, t) IN
    IF ~v.ok THEN Rejected(p, v)
    ELSE PatchTaskschangeResult(p, v.userId, id, completestatus, currentstatus)

PutTasksRoute(p, hdr, t, id, editedtask, editedtype) ==
    LET v == validateToken(hdr, t) IN
    IF ~v.ok THEN Rejected(p, v)
    ELSE PutTasksResult(p, v.userId, id, editedtask, editedtype)

----------------------------------------------------------------------------
(* Actions: one request served *)

GetUser(hdr) ==
    /\ resp' = GetUserRoute(users, hdr, now)
    /\ UNCHANGED <<users, posts, now, session, creds, reg>>

GetTasks(hdr) ==
    /\ resp' \in GetTasksRoute(posts, hdr, now)
    /\ UNCHANGED <<users, posts, now, session, creds, reg>>

GetTaskschange(hdr) ==
    /\ resp' \in GetTaskschangeRoute(posts, hdr, now)
    /\ UNCHANGED <<users, posts, now, session, creds, reg>>

GetRemindertasks(hdr) ==
    /\ resp' \in GetRemindertasksRoute(posts, hdr, now)
    /\ UNCHANGED <<users, posts, now, session, creds, reg>>

Served(r) ==
    /\ posts' = r.posts
    /\ resp' = r.resp
    /\ UNCHANGED <<users, now, session, creds, reg>>

PostTasks(hdr, task, type, timeofentry, completestatus, remindertime, currentstatus) ==
    Served(PostTasksRoute(posts, hdr, now, task, type, timeofentry,
                          completestatus, remindertime, currentstatus))

PatchTasks(hdr, id, completestatus, currentstatus) ==
    Served(PatchTasksRoute(posts, hdr, now, id, completestatus, currentstatus))

PatchDtasks(hdr, id, completestatus, currentstatus) ==
    Served(PatchDtasksRoute(posts, hdr, now, id, completestatus, currentstatus))

PatchTaskschange(hdr, id, completestatus, currentstatus) ==
    Served(PatchTaskschangeRoute(posts, hdr, now, id, completestatus, currentstatus))

PutTasks(hdr, id, editedtask, editedtype) ==
    Served(PutTasksRoute(posts, hdr, now, id, editedtask, editedtype))

\* Time passes
Advance ==
    /\ now + Tick <= MaxTime
    /\ now' = now + Tick
    /\ UNCHANGED <<users, posts, resp, session, creds, reg>>

----------------------------------------------------------------------------
(* The task routes, one hour after Alice and Bob registered *)

RegIdle ==
    [r \in 1..MaxReq |->
        [pc |-> "idle", body |-> AliceBody, hashedPassword |-> <<>>, resp |-> NoResponse]]

InitTask ==
    /\ users = TwoUsers
    /\ posts = <<>>
    /\ now = ExpiresIn
    /\ resp = NoResponse
    /\ session = <<>>
    /\ creds = <<AliceBody.password, BobBody.password>>
    /\ reg = RegIdle

TaskIds == 1..(MaxTasks + 1)

\* Bodies of POST /tasks: task, type, remindertime (<<>> when absent)
PostBodies ==
    {<<"buy milk", "home", <<ExpiresIn + Tick>>>>, <<"", "home", <<ExpiresIn + Tick>>>>,
     <<"buy milk", Undefined, <<ExpiresIn + Tick>>>>, <<"buy milk", "home", <<>>>>}

\* Bodies of PUT /tasks/:id: editedtask, editedtype
PutBodies == {<<"buy bread", Undefined>>, <<"", "shop">>}

NextTask ==
    \/ \E hdr \in TaskHeaders : GetUser(hdr)
    \/ \E hdr \in TaskHeaders : GetTasks(hdr)
    \/ \E hdr \in TaskHeaders : GetTaskschange(hdr)
    \/ \E hdr \in TaskHeaders : GetRemindertasks(hdr)
    \/ /\ Len(posts) < MaxTasks
       /\ \E hdr \in TaskHeaders, b \in PostBodies, c \in Flags, s \in Flags :
             PostTasks(hdr, b[1], b[2], now, c, b[3], s)
    \/ \E hdr \in TaskHeaders, id \in TaskIds, c \in Flags, s \in Flags : PatchTasks(hdr, id, c, s)
    \/ \E hdr \in TaskHeaders, id \in TaskIds, c \in Flags, s \in Flags : PatchDtasks(hdr, id, c, s)
    \/ \E hdr \in TaskHeaders, id \in TaskIds, c \in Flags, s \in Flags : PatchTaskschange(hdr, id, c, s)
    \/ \E hdr \in TaskHeaders, id \in TaskIds, b \in PutBodies : PutTasks(hdr, id, b[1], b[2])

SpecTask == InitTask /\ [][NextTask]_vars

----------------------------------------------------------------------------
(* The row lists GET /tasks and GET /taskschange can answer to a user *)

ListPending(p, userId) == OrderByTimeDescAll(SelectPending(p, userId))

ListCompleted(p, userId) == OrderByTimeDescAll(SelectCompleted(p, userId))

----------------------------------------------------------------------------
(* Properties of the task routes.  Each is stated of every reachable state *)
(* and of every request that may be served next in it.                     *)

UserIds == {u.id : u \in Range(TwoUsers)}

Ids(list) == {list[i].id : i \in DOMAIN list}

InEvery(lists, id) == \A l \in lists : id \in Ids(l)

InNone(lists, id) == \A l \in lists : id \notin Ids(l)

Owned(p, userId) == {r \in Range(p) : r.user_id = userId}

Foreign(p, id, userId) == \E r \in Range(p) : r.id = id /\ r.user_id # userId

NoSuchId(p) == Len(p) + 1

SetStatusRoutes(p, hdr, t, id, c, s) ==
    {PatchTasksRoute(p, hdr, t, id, c, s), PatchDtasksRoute(p, hdr, t, id, c, s),
     PatchTaskschangeRoute(p, hdr, t, id, c, s)}

CreateRoutes(p, hdr, t, c, s) ==
    {PostTasksRoute(p, hdr, t, b[1], b[2], t, c, b[3], s) : b \in PostBodies}

\* The user a header stands for
UserOf(hdr, t) == validateToken(hdr, t).userId

\* C3 as stated: every task a user creates is in the user's pending list
\* right after; a SetStatus with completeStatus = true puts the task in the
\* completed list and takes it out of the pending list; a SetStatus with
\* currentStatus = true takes it out of both lists.
C3_AsStated ==
    \A hdr \in TaskHeaders :
        /\ \A c \in Flags, s \in Flags : \A r \in CreateRoutes(posts, hdr, now, c, s) :
              r.resp.status = 201
                => InEvery(ListPending(r.posts, UserOf(hdr, now)), r.resp.rows[1].id)
        /\ \A id \in TaskIds, c \in Flags, s \in Flags :
           \A r \in SetStatusRoutes(posts, hdr, now, id, c, s) :
              r.resp.status = 200
                => /\ c = "TRUE" => /\ InEvery(ListCompleted(r.posts, UserOf(hdr, now)), id)
                                    /\ InNone(ListPending(r.posts, UserOf(hdr, now)), id)
                   /\ s = "TRUE" => /\ InNone(ListCompleted(r.posts, UserOf(hdr, now)), id)
                                    /\ InNone(ListPending(r.posts, UserOf(hdr, now)), id)

\* C3, amended: a task created with completeStatus = false and currentStatus
\* = false is in its owner's pending list right after; a SetStatus with
\* completeStatus = true and currentStatus = false puts the task in the
\* completed list and takes it out of the pending list; a SetStatus with
\* currentStatus = true takes it out of both lists.
C3_CreateSetStatusLists ==
    \A hdr \in TaskHeaders :
        /\ \A r \in CreateRoutes(posts, hdr, now, "FALSE", "FALSE") :
              r.resp.status = 201
                => InEvery(ListPending(r.posts, UserOf(hdr, now)), r.resp.rows[1].id)
        /\ \A id \in TaskIds, c \in Flags, s \in Flags :
           \A r \in SetStatusRoutes(posts, hdr, now, id, c, s) :
              r.resp.status = 200
                => /\ (c = "TRUE" /\ s = "FALSE")
                         => /\ InEvery(ListCompleted(r.posts, UserOf(hdr, now)), id)
                            /\ InNone(ListPending(r.posts, UserOf(hdr, now)), id)
                   /\ s = "TRUE" => /\ InNone(ListCompleted(r.posts, UserOf(hdr, now)), id)
                                    /\ InNone(ListPending(r.posts, UserOf(hdr, now)), id)

\* A completed task has just been hidden by a SetStatus with currentStatus =
\* true, next to a completed task of the same owner that is still listed
C3_Witness ==
    /\ resp.status = 200 /\ Len(resp.rows) = 1
    /\ \E r \in Range(posts), q \in Range(posts) :
          /\ resp.rows[1] = r /\ r.currentstatus = "TRUE" /\ r.completestatus = "TRUE"
          /\ q.user_id = r.user_id
          /\ q.completestatus = "TRUE" /\ q.currentstatus = "FALSE"

NotFoundAnswer(r) ==
    r.status = 404 /\ r.error = "Task not found or unauthorized" /\ r.rows = <<>>

\* C4 as stated: SetStatus (any PATCH route) and EditContent on a task of
\* another user answer 404, the same answer as for an id of no row, and
\* change no row.
C4_AsStated ==
    \A hdr \in TaskHeaders, id \in TaskIds :
        validateToken(hdr, now).ok /\ Foreign(posts, id, UserOf(hdr, now))
          => /\ \A c \in Flags, s \in Flags :
                \A r \in SetStatusRoutes(posts, hdr, now, id, c, s) :
                   NotFoundAnswer(r.resp) /\ r.posts = posts
             /\ \A b \in PutBodies :
                   LET r == PutTasksRoute(posts, hdr, now, id, b[1], b[2])
                   IN NotFoundAnswer(r.resp) /\ r.posts = posts

\* C4, amended: on a task of another user, SetStatus (any PATCH route), and
\* EditContent with a non-empty editedTask, answer 404; EditContent with an
\* empty editedTask answers 400; in each case the answer is the one the
\* same request gets for an id of no row, and no row changes.
C4_ForeignTaskNotFound ==
    \A hdr \in TaskHeaders, id \in TaskIds :
        validateToken(hdr, now).ok /\ Foreign(posts, id, UserOf(hdr, now))
          => /\ \A c \in Flags, s \in Flags :
                /\ \A r \in SetStatusRoutes(posts, hdr, now, id, c, s) :
                      NotFoundAnswer(r.resp) /\ r.posts = posts
                /\ PatchTasksRoute(posts, hdr, now, id, c, s).resp
                      = PatchTasksRoute(posts, hdr, now, NoSuchId(posts), c, s).resp
                /\ PatchDtasksRoute(posts, hdr, now, id, c, s).resp
                      = PatchDtasksRoute(posts, hdr, now, NoSuchId(posts), c, s).resp
                /\ PatchTaskschangeRoute(posts, hdr, now, id, c, s).resp
                      = PatchTaskschangeRoute(posts, hdr, now, NoSuchId(posts), c, s).resp
             /\ \A b \in PutBodies :
                   LET r == PutTasksRoute(posts, hdr, now, id, b[1], b[2])
                   IN /\ r.resp = PutTasksRoute(posts, hdr, now, NoSuchId(posts), b[1], b[2]).resp
                      /\ IF b[1] = "" THEN r.resp.status = 400 ELSE NotFoundAnswer(r.resp)
                      /\ r.posts = posts

\* Alice and Bob each own a task and a request has just been answered 404
C4_Witness ==
    /\ NotFoundAnswer(resp)
    /\ \E r \in Range(posts), q \in Range(posts) : r.user_id # q.user_id

\* C5: in every reachable state and for every user u, the pending list is
\* exactly u's tasks with completestatus = false and currentstatus = false,
\* the completed list is exactly u's tasks with completestatus = true and
\* currentstatus = false, and a task is in neither list of its owner iff its
\* currentstatus is true.
C5_Views ==
    \A u \in UserIds :
        /\ \A l \in ListPending(posts, u) :
              Range(l) = {r \in Owned(posts, u) :
                             r.completestatus = "FALSE" /\ r.currentstatus = "FALSE"}
        /\ \A l \in ListCompleted(posts, u) :
              Range(l) = {r \in Owned(posts, u) :
                             r.completestatus = "TRUE" /\ r.currentstatus = "FALSE"}
        /\ \A r \in Owned(posts, u) :
              (InNone(ListPending(posts, u), r.id) /\ InNone(ListCompleted(posts, u), r.id))
                <=> r.currentstatus = "TRUE"

\* C9: GET /remindertasks answers only tasks with completestatus = false and
\* currentstatus = false.
C9_RemindersOnlyPending ==
    \A hdr \in TaskHeaders : \A a \in GetRemindertasksRoute(posts, hdr, now) :
        \A i \in DOMAIN a.rows :
            a.rows[i].completestatus = "FALSE" /\ a.rows[i].currentstatus = "FALSE"

SameBut(r, q, fields) == \A f \in DOMAIN r \ fields : r[f] = q[f]

OthersKept(p, q, id) ==
    /\ Len(q) = Len(p)
    /\ \A i \in DOMAIN p : p[i].id # id => q[i] = p[i]

\* C10: a successful SetStatus through any of the three PATCH routes sets
\* both flags of the task to the supplied values (NULL for an absent one),
\* whatever they were, keeps the task's other fields and every other row,
\* and the three routes give the same table and answer for the same input;
\* a successful EditContent sets task and type and keeps the flags, the
\* other fields and every other row.
C10_FrameOfUpdates ==
    \A hdr \in TaskHeaders, id \in TaskIds :
        /\ \A c \in Flags, s \in Flags :
              /\ \A r \in SetStatusRoutes(posts, hdr, now, id, c, s) :
                    r.resp.status = 200
                      => /\ r.posts[id].completestatus = ToParam(c)
                         /\ r.posts[id].currentstatus = ToParam(s)
                         /\ SameBut(r.posts[id], posts[id], {"completestatus", "currentstatus"})
                         /\ OthersKept(posts, r.posts, id)
                         /\ r.resp.rows = <<r.posts[id]>>
              /\ Cardinality(SetStatusRoutes(posts, hdr, now, id, c, s)) = 1
        /\ \A b \in PutBodies :
              LET r == PutTasksRoute(posts, hdr, now, id, b[1], b[2]) IN
              r.resp.status = 200
                => /\ r.posts[id].task = b[1]
                   /\ r.posts[id].type = ToParam(b[2])
                   /\ SameBut(r.posts[id], posts[id], {"task", "type"})
                   /\ OthersKept(posts, r.posts, id)
                   /\ r.resp.rows = <<r.posts[id]>>

\* A task had both flags overwritten next to another task of the same owner
\* whose flags differ
C10_Witness ==
    /\ resp.status = 200 /\ Len(resp.rows) = 1 /\ Len(posts) = 2
    /\ posts[1].user_id = posts[2].user_id
    /\ resp.rows[1] = posts[1]
    /\ posts[1].completestatus = "TRUE" /\ posts[1].currentstatus = NULL
    /\ posts[2].completestatus = "FALSE" /\ posts[2].currentstatus = "FALSE"

----------------------------------------------------------------------------
(* The gate of the protected routes, from Tick minutes before the tokens   *)
(* issued at time 0 expire                                                 *)

InitGate ==
    /\ users = TwoUsers
    /\ posts = <<>>
    /\ now = ExpiresIn - Tick
    /\ resp = NoResponse
    /\ session = <<>>
    /\ creds = <<AliceBody.password, BobBody.password>>
    /\ reg = RegIdle

GateIds == 1..(MaxGateTasks + 1)

GateFlags == {"TRUE", "FALSE"}

NextGate ==
    \/ \E hdr \in GateHeaders : GetUser(hdr)
    \/ \E hdr \in GateHeaders : GetTasks(hdr)
    \/ \E hdr \in GateHeaders : GetTaskschange(hdr)
    \/ \E hdr \in GateHeaders : GetRemindertasks(hdr)
    \/ /\ Len(posts) < MaxGateTasks
       /\ \E hdr \in GateHeaders, b \in PostBodies, c \in GateFlags, s \in GateFlags :
             PostTasks(hdr, b[1], b[2], now, c, b[3], s)
    \/ \E hdr \in GateHeaders, id \in GateIds, c \in GateFlags, s \in GateFlags :
          PatchTasks(hdr, id, c, s)
    \/ \E hdr \in GateHeaders, id \in GateIds, c \in GateFlags, s \in GateFlags :
          PatchDtasks(hdr, id, c, s)
    \/ \E hdr \in GateHeaders, id \in GateIds, c \in GateFlags, s \in GateFlags :
          PatchTaskschange(hdr, id, c, s)
    \/ \E hdr \in GateHeaders, id \in GateIds, b \in PutBodies : PutTasks(hdr, id, b[1], b[2])
    \/ Advance

SpecGate == InitGate /\ [][NextGate]_vars

MissingToken(hdr) == Len(hdr) < 2

BadSignature(hdr) == Len(hdr) >= 2 /\ hdr[2].key # jwtSecretKey

Expired(hdr, t) == Len(hdr) >= 2 /\ hdr[2].iat + ExpiresIn <= t

\* What the nine protected routes do with a request at time t: the tables
\* they leave and the answers they can give
GateOutcomes(u, p, hdr, t) ==
    LET kept == {[posts |-> p, resp |-> a] :
                    a \in {GetUserRoute(u, hdr, t)} \cup GetTasksRoute(p, hdr, t)
                          \cup GetTaskschangeRoute(p, hdr, t)
                          \cup GetRemindertasksRoute(p, hdr, t)}
        posted == {PostTasksRoute(p, hdr, t, b[1], b[2], t, c, b[3], s) :
                      b \in PostBodies, c \in GateFlags, s \in GateFlags}
        patched == UNION {SetStatusRoutes(p, hdr, t, id, c, s) :
                             id \in GateIds, c \in GateFlags, s \in GateFlags}
        put == {PutTasksRoute(p, hdr, t, id, b[1], b[2]) : id \in GateIds, b \in PutBodies}
    IN kept \cup posted \cup patched \cup put

\* C6: a request to any of the nine protected routes that carries no token
\* is answered 401, one whose token has a wrong signature or was issued an
\* hour or more ago is answered 403, and the answer carries no row; in each
\* case the tables are as before.
C6_Gate ==
    \A hdr \in GateHeaders :
        (MissingToken(hdr) \/ BadSignature(hdr) \/ Expired(hdr, now))
          => \A r \in GateOutcomes(users, posts, hdr, now) :
                /\ r.resp.status = IF MissingToken(hdr) THEN 401 ELSE 403
                /\ r.resp.rows = <<>> /\ r.resp.token = <<>>
                /\ r.posts = posts

\* A request has been refused with 403 at a time when every token has
\* expired, with a task in the table
C6_Witness ==
    /\ resp.status = 403 /\ resp.error = "Invalid or expired token"
    /\ now >= ExpiresIn
    /\ Len(posts) > 0

----------------------------------------------------------------------------
(* The reminder list over a table of up to MaxRemRows tasks *)

\* Tokens issued at time ExpiresIn, valid for the whole run
RemHeaders == Bearer(jwtSecretKey, ExpiresIn)

AliceHeader == <<"Bearer", JwtSign(TwoUsers[1].id, TwoUsers[1].email, jwtSecretKey, ExpiresIn)>>
BobHeader == <<"Bearer", JwtSign(TwoUsers[2].id, TwoUsers[2].email, jwtSecretKey, ExpiresIn)>>

\* Requests of POST /tasks: header, timeofentry, remindertime.  Alice's
\* first task was due long ago; her second is due in exactly
\* ReminderInterval minutes at time ExpiresIn, so it is listed only later
RemRequests ==
    {<<AliceHeader, 0, 0>>,
     <<AliceHeader, Tick, ExpiresIn + ReminderInterval>>,
     <<BobHeader, Tick, ExpiresIn + Tick>>}

EnteredAt(p, t) == {r \in Range(p) : r.timeofentry = t}

\* At most MaxRemRows tasks, at most MaxTies of them entered at the same time
NextRem ==
    \/ \E hdr \in RemHeaders : GetRemindertasks(hdr)
    \/ /\ Len(posts) < MaxRemRows
       /\ \E q \in RemRequests :
             /\ Cardinality(EnteredAt(posts, q[2])) < MaxTies
             /\ PostTasks(q[1], "buy milk", "home", q[2], "FALSE", <<q[3]>>, "FALSE")
    \/ Advance

SpecRem == InitTask /\ [][NextRem]_vars

Due(p, userId, t) == {r \in Owned(p, userId) : r.remindertime - t < ReminderInterval}

----------------------------------------------------------------------------
(* Registration, login and the profile, requests served one after the other *)

Register(body, salt) ==
    LET r == RegisterResult(users, body, salt) IN
    /\ users' = r.users
    /\ resp' = r.resp
    /\ creds' = IF r.resp.status = 201 THEN Append(creds, body.password) ELSE creds
    /\ UNCHANGED <<posts, now, session, reg>>

\* The client keeps the token of its last successful login
Login(email, password) ==
    LET a == LoginResult(users, email, password, now) IN
    /\ resp' = a
    /\ session' = IF a.status = 200 THEN a.token ELSE session
    /\ UNCHANGED <<users, posts, now, creds, reg>>

SessionHeaders ==
    NoHeaders \cup
    {<<"Bearer", tok>> : tok \in Range(session) \cup {[t EXCEPT !.key = ForgedKey] : t \in Range(session)}}

InitAuth ==
    /\ users = <<>>
    /\ posts = <<>>
    /\ now = 0
    /\ resp = NoResponse
    /\ session = <<>>
    /\ creds = <<>>
    /\ reg = RegIdle

NextAuth ==
    \/ \E body \in RegBodies, salt \in Salts : Register(body, salt)
    \/ \E email \in Emails \cup {""}, password \in Passwords \cup {<<>>} : Login(email, password)
    \/ \E hdr \in SessionHeaders : GetUser(hdr)
    \/ Advance

SpecAuth == InitAuth /\ [][NextAuth]_vars

RowsOf(u, email) == {r \in Range(u) : r.email = email}

\* C2: when Register is called twice in a row with the same email, not
\* registered before, and all four fields non-empty both times, the first
\* call is answered 201 and the second 409, the second call leaves the
\* table as it is, and the table ends with exactly one row for the email,
\* holding the first call's names and a hash of the first call's password.
C2_RegisterTwice ==
    \A b1 \in RegBodies, b2 \in RegBodies, s1 \in Salts, s2 \in Salts :
        (~RegInvalid(b1) /\ ~RegInvalid(b2) /\ b1.email = b2.email /\ RowsOf(users, b1.email) = {})
          => LET r1 == RegisterResult(users, b1, s1)
                 r2 == RegisterResult(r1.users, b2, s2)
             IN /\ r1.resp.status = 201
                /\ r2.resp.status = 409 /\ r2.resp.rows = <<>>
                /\ r2.users = r1.users
                /\ Cardinality(RowsOf(r2.users, b1.email)) = 1
                /\ \A row \in RowsOf(r2.users, b1.email) :
                      /\ row.firstname = b1.firstname /\ row.lastname = b1.lastname
                      /\ row.password = BcryptHash(b1.password, s1)
                /\ \A i \in DOMAIN users : r2.users[i] = users[i]

\* A second registration of Alice's email has just been answered 409 and
\* the table holds Alice's row and Bob's
C2_Witness ==
    /\ resp.status = 409
    /\ Cardinality(RowsOf(users, "alice@example.com")) = 1
    /\ Len(users) = 2

\* C7: for every registered user, Login with the user's email and the
\* password given at registration is answered 200 with a token that
\* validateToken accepts until it expires and decodes to the user's id and
\* email; Login with the email and any other password is answered 401 with
\* no token.
C7_Login ==
    \A i \in DOMAIN users : \A p \in Passwords :
        LET a == LoginResult(users, users[i].email, p, now) IN
        IF p = creds[i]
          THEN /\ a.status = 200 /\ Len(a.token) = 1
               /\ \A t \in now..(now + ExpiresIn - 1) :
                     LET v == validateToken(<<"Bearer", a.token[1]>>, t)
                     IN v.ok /\ v.userId = users[i].id /\ v.userEmail = users[i].email
          ELSE a.status = 401 /\ a.token = <<>>

----------------------------------------------------------------------------
(* Concurrent registrations: the handler of POST /register stops at each   *)
(* await, and other requests run in between                                *)

Reqs == 1..MaxReq

\* Lines 87-96: the presence check and the SELECT
RegLookup(r, body) ==
    /\ reg[r].pc = "idle"
    /\ reg' = [reg EXCEPT ![r] =
          IF RegInvalid(body)
            THEN [@ EXCEPT !.pc = "done", !.body = body, !.resp = RegBadRequest]
          ELSE IF Len(SelectByEmail(users, body.email)) > 0
            THEN [@ EXCEPT !.pc = "done", !.body = body, !.resp = RegConflict]
          ELSE [@ EXCEPT !.pc = "hash", !.body = body]]
    /\ UNCHANGED <<users, posts, now, resp, session, creds>>

\* Line 98: bcrypt.hash
RegHash(r, salt) ==
    /\ reg[r].pc = "hash"
    /\ reg' = [reg EXCEPT ![r] = [@ EXCEPT !.pc = "insert",
                                           !.hashedPassword = BcryptHash(reg[r].body.password, salt)]]
    /\ UNCHANGED <<users, posts, now, resp, session, creds>>

\* The requests whose INSERT failed: each used up a value of the serial key
FailedInserts == {r \in Reqs : reg[r].pc = "done" /\ reg[r].resp = RegFailed}

\* Lines 99-107: the INSERT and the answer, 500 when the INSERT fails
RegInsert(r) ==
    /\ reg[r].pc = "insert"
    /\ IF UniqueViolation(users, reg[r].body.email)
         THEN /\ users' = users
              /\ reg' = [reg EXCEPT ![r] = [@ EXCEPT !.pc = "done", !.resp = RegFailed]]
         ELSE /\ users' = InsertUser(users, Len(users) + Cardinality(FailedInserts) + 1,
                                     reg[r].body, reg[r].hashedPassword)
              /\ reg' = [reg EXCEPT ![r] = [@ EXCEPT !.pc = "done",
                            !.resp = Response(201, "", <<Registered(users'[Len(users')])>>, <<>>)]]
    /\ UNCHANGED <<posts, now, resp, session, creds>>

NextReg ==
    \/ \E r \in Reqs, body \in RegBodies : RegLookup(r, body)
    \/ \E r \in Reqs, salt \in Salts : RegHash(r, salt)
    \/ \E r \in Reqs : RegInsert(r)

SpecReg == InitAuth /\ [][NextReg]_vars

\* C1: in every state reachable by interleaving the steps (look up, hash,
\* insert) of concurrent Register requests, the table logindata holds at
\* most one row per email.
C1_EmailUnique ==
    \A i \in DOMAIN users, j \in DOMAIN users : users[i].email = users[j].email => i = j

\* Two requests with the same email both passed the look-up; the INSERT of
\* one was answered 201 and the INSERT of the other failed
C1_Witness ==
    \E r \in Reqs, q \in Reqs :
        /\ reg[r].pc = "done" /\ reg[r].resp.status = 201
        /\ reg[q].pc = "done" /\ reg[q].resp = RegFailed
        /\ reg[r].body.email = reg[q].body.email
        /\ Cardinality({i \in DOMAIN users : users[i].email = reg[r].body.email}) = 1

====
